---- MODULE Spec2Model ----
(***************************************************************************)
(* Orderdesk shipment dashboard (src/orderdesk_dashboard.py).              *)
(*                                                                         *)
(* Dates are day numbers; day 0 is a Monday, so weekday(c) = c % 7 and     *)
(* 5, 6 are Saturday and Sunday.  A spreadsheet cell is a record           *)
(* [kind, val]: kind "blank" is the empty string, "text" a string that is  *)
(* neither a number nor a date, "int" a number, "date" a date string.      *)
(* A typed column value is a record [na, v]: na is pandas' NaN / NaT.      *)
(***************************************************************************)
EXTENDS Integers, Sequences, FiniteSets, TLC

VARIABLES
    today,          \* pd.Timestamp.now(tz=LOCAL_TZ).normalize(), a day number
    ca_holidays,    \* the dates holidays.CA(prov="ON") answers "in" for
    sheet,          \* the rows of the raw_orders worksheet
    env_b64,        \* os.getenv("GOOGLE_SERVICE_KEY_B64")
    clock,          \* wall clock, seconds
    cache,          \* st.cache_data entry of load_data
    pc,             \* where the current script run of main is
    data,           \* the frame main holds after the load
    screen,         \* what the current run has rendered
    decoded,        \* the run decoded the credential
    opened,         \* the run opened the spreadsheet
    clicked,        \* the run was started by a click on "Refresh Data"
    rerun,          \* the run was started by st.experimental_rerun()
    filters,        \* the sidebar widgets of render_filters
    views,          \* the KPI cards, the filtered frame and the tab frames
    order_summary,  \* the All Orders table of render_dashboard_tabs
    d,              \* argument of next_open_day
    result          \* value returned by next_open_day

vars == <<today, ca_holidays, sheet, env_b64, clock, cache, pc, data,
          screen, decoded, opened, clicked, rerun, filters, views,
          order_summary, d, result>>

----------------------------------------------------------------------------
(* Bounds of the model *)

MaxDay == 8          \* ship dates and today lie in 0..MaxDay
MaxQty == 2          \* numeric quantity cells lie in 0..MaxQty
MaxDoc == 2          \* document numbers lie in 1..MaxDoc
MaxRows == 2         \* lines of a multi-line sheet
MaxHolidays == 2     \* size of a holiday set in the calendar specification
MaxClock == 3        \* the clock stops advancing after MaxClock ticks
TickSeconds == 1800  \* seconds the clock advances in one tick

----------------------------------------------------------------------------
(* Cells and typed values *)

Blank == [kind |-> "blank", val |-> 0]
Junk == [kind |-> "text", val |-> 0]
Num(n) == [kind |-> "int", val |-> n]
DateText(n) == [kind |-> "date", val |-> n]

NA == [na |-> TRUE, v |-> 0]
Val(n) == [na |-> FALSE, v |-> n]

to_datetime_epoch(cell) == IF cell.kind = "date" THEN Val(cell.val) ELSE Val(0)

\* pd.to_datetime(..., errors="coerce")
to_datetime(cell) == IF cell.kind = "date" THEN Val(cell.val) ELSE NA

\* pd.to_numeric(..., errors="coerce")
to_numeric(cell) == IF cell.kind = "int" THEN Val(cell.val) ELSE NA

\* Series.fillna(0)
fillna0(x) == IF x.na THEN 0 ELSE x.v

\* comparisons of a column with a scalar: NaN / NaT compares False
Gt(x, n) == ~x.na /\ x.v > n
Le(x, n) == ~x.na /\ x.v <= n
Eq(x, n) == ~x.na /\ x.v = n

\* df["Quantity"].fillna(0) - df["Quantity Fulfilled/Received"].fillna(0)
OutstandingQty_nofill(q, f) == IF q.na \/ f.na THEN NA ELSE Val(q.v - f.v)

OutstandingQty(q, f) == Val(fillna0(q) - fillna0(f))

----------------------------------------------------------------------------
(* Text: a string is a sequence of one-character strings *)

UpperCase == <<"A", "B", "C", "D", "E", "F", "G", "H", "I", "J", "K", "L", "M",
               "N", "O", "P", "Q", "R", "S", "T", "U", "V", "W", "X", "Y", "Z">>
LowerCase == <<"a", "b", "c", "d", "e", "f", "g", "h", "i", "j", "k", "l", "m",
               "n", "o", "p", "q", "r", "s", "t", "u", "v", "w", "x", "y", "z">>

lower_char(c) ==
    IF \E i \in 1..Len(UpperCase) : UpperCase[i] = c
    THEN LowerCase[CHOOSE i \in 1..Len(UpperCase) : UpperCase[i] = c]
    ELSE c

upper_char(c) ==
    IF \E i \in 1..Len(LowerCase) : LowerCase[i] = c
    THEN UpperCase[CHOOSE i \in 1..Len(LowerCase) : LowerCase[i] = c]
    ELSE c

\* str.lower()
str_lower(t) == [i \in 1..Len(t) |-> lower_char(t[i])]

\* str.capitalize(): first character upper case, the rest lower case
str_capitalize(t) ==
    [i \in 1..Len(t) |-> IF i = 1 THEN upper_char(t[i]) ELSE lower_char(t[i])]

\* str.strip()
RECURSIVE str_strip(_)
str_strip(t) ==
    IF t = <<>> THEN t
    ELSE IF Head(t) = " " THEN str_strip(Tail(t))
    ELSE IF t[Len(t)] = " " THEN str_strip(SubSeq(t, 1, Len(t) - 1))
    ELSE t

\* str.contains(term) for a term without regular-expression metacharacters
str_contains(t, term) ==
    \E i \in 0..(Len(t) - Len(term)) : SubSeq(t, i + 1, i + Len(term)) = term

\* astype(str) of a document number
Digits == <<"1", "2", "3", "4", "5", "6", "7", "8", "9">>
astype_str(n) == <<Digits[n]>>

\* the column is not among the columns of the worksheet
NoColumn == <<"<no column>">>

----------------------------------------------------------------------------
(* Business-day helpers *)

weekday(c) == c % 7

RECURSIVE walk(_, _)
walk(c, H) == IF weekday(c) >= 5 \/ c \in H THEN walk(c + 1, H) ELSE c

next_open_day_sunday_only(dd, H) ==
    LET RECURSIVE w(_)
        w(c) == IF weekday(c) >= 6 \/ c \in H THEN w(c + 1) ELSE c
    IN w(dd + 1)

next_open_day(dd, H) == walk(dd + 1, H)

\* list(ca_holidays.keys()) of the freshly constructed holidays.CA object:
\* no year has been looked up yet, so the key list is empty
bd_holidays == {}

\* CustomBusinessDay(weekmask="Mon Tue Wed Thu Fri", holidays=...)
bd(c) == weekday(c) < 5 /\ c \notin bd_holidays

calc_days_overdue(ship_dt, t) ==
    IF ship_dt.na \/ ship_dt.v >= t THEN 0
    ELSE Cardinality({c \in ship_dt.v .. (t - 1) : bd(c)})

----------------------------------------------------------------------------
(* Bucket calculation *)

NoBucket == "<NA>"

labs == <<"Overdue", "Due Tomorrow", "Partially Shipped">>

conds_unguarded(r, t, tm) ==
    << Gt(r.OutstandingQty, 0) /\ Le(r.ShipDate, t),
       Gt(r.OutstandingQty, 0) /\ Eq(r.ShipDate, tm),
       Gt(r.QuantityFulfilled, 0) >>

conds(r, t, tm) ==
    << Gt(r.OutstandingQty, 0) /\ Le(r.ShipDate, t),
       Gt(r.OutstandingQty, 0) /\ Eq(r.ShipDate, tm),
       Gt(r.OutstandingQty, 0) /\ Gt(r.QuantityFulfilled, 0) >>

\* first matching label wins (numpy.select semantics)
Bucket_first_wins(cs) ==
    IF cs[1] THEN labs[1] ELSE IF cs[2] THEN labs[2]
    ELSE IF cs[3] THEN labs[3] ELSE NoBucket

\* df["Bucket"] = pd.NA; for c, l in zip(conds, labs): df.loc[c, "Bucket"] = l
Bucket(cs) ==
    LET RECURSIVE assign(_, _)
        assign(i, b) == IF i > Len(labs) THEN b
                        ELSE assign(i + 1, IF cs[i] THEN labs[i] ELSE b)
    IN assign(1, NoBucket)

----------------------------------------------------------------------------
(* load_data *)

\* "Purchase Order" in df.columns and astype(str).str.strip().ne("")
is_drop_ship(po) == po # NoColumn /\ str_strip(po) # <<>>

\* "Rush Order" in df.columns and astype(str).str.capitalize() == "Yes"
is_rush(cell) == cell # NoColumn /\ str_capitalize(cell) = <<"Y", "e", "s">>

typed(raw) ==
    LET q == to_numeric(raw.Quantity)
        f == to_numeric(raw.QuantityFulfilled)
    IN [DocumentNumber |-> raw.DocumentNumber,
        Name |-> raw.Name,
        Status |-> raw.Status,
        ShipDate |-> to_datetime(raw.ShipDate),
        Quantity |-> q,
        QuantityFulfilled |-> f,
        OutstandingQty |-> OutstandingQty(q, f),
        PurchaseOrder |-> raw.PurchaseOrder,
        ItemType |-> raw.ItemType,
        Item |-> raw.Item,
        Memo |-> raw.Memo,
        RushOrder |-> raw.RushOrder]

line(raw, t, H) ==
    LET r == typed(raw)
        tm == next_open_day(t, H)
    IN [DocumentNumber |-> r.DocumentNumber,
        Name |-> r.Name,
        Status |-> r.Status,
        ShipDate |-> r.ShipDate,
        Quantity |-> r.Quantity,
        QuantityFulfilled |-> r.QuantityFulfilled,
        OutstandingQty |-> r.OutstandingQty,
        Bucket |-> Bucket(conds(r, t, tm)),
        DaysOverdue |-> calc_days_overdue(r.ShipDate, t),
        PurchaseOrder |-> r.PurchaseOrder,
        ItemType |-> r.ItemType,
        Item |-> r.Item,
        Memo |-> r.Memo,
        IsDropShip |-> is_drop_ship(r.PurchaseOrder),
        RushOrder |-> is_rush(r.RushOrder)]

\* a worksheet without records gives a frame without columns, and
\* df["Ship Date"] raises KeyError
load_data(rows, t, H) ==
    IF rows = <<>> THEN [ok |-> FALSE, df |-> <<>>]
    ELSE [ok |-> TRUE, df |-> [i \in 1..Len(rows) |-> line(rows[i], t, H)]]

----------------------------------------------------------------------------
(* render_dashboard_tabs: the All Orders summary *)

RECURSIVE SeqSum(_)
SeqSum(s) == IF s = <<>> THEN 0 ELSE Head(s) + SeqSum(Tail(s))

\* the group key of a line; groupby drops a line whose key holds a null
group_key(r) == <<r.DocumentNumber, r.Name, r.ShipDate.v, r.Status>>

group_keys(df) ==
    {group_key(df[i]) : i \in {j \in 1..Len(df) : ~df[j].ShipDate.na}}

group_lines(df, k) ==
    SelectSeq(df, LAMBDA r : ~r.ShipDate.na /\ group_key(r) = k)

\* .agg({...: "sum"}): a sum skips NaN
agg_sum(g, col) == SeqSum([i \in 1..Len(g) |-> fillna0(g[i][col])])

ChemicalMark == "(!)"
AssemblyBOM == "Assembly/Bill of Materials"
PendingBilling == "Pending Billing/Partially Fulfilled"

has_chemicals_any_qty(df, order_num) ==
    IF \E i \in 1..Len(df) : /\ df[i].DocumentNumber = order_num
                             /\ df[i].ItemType = AssemblyBOM
    THEN ChemicalMark ELSE ""

\* the Chemical column: computed on the frame render_dashboard_tabs is given
has_chemicals(df, order_num) ==
    IF \E i \in 1..Len(df) : /\ df[i].DocumentNumber = order_num
                             /\ df[i].ItemType = AssemblyBOM
                             /\ Gt(df[i].OutstandingQty, 0)
    THEN ChemicalMark ELSE ""

order_summary_of(df) ==
    { [OrderNo |-> k[1], Customer |-> k[2], ShipDate |-> k[3], Status |-> k[4],
       OutstandingQty |-> agg_sum(group_lines(df, k), "OutstandingQty"),
       Quantity |-> agg_sum(group_lines(df, k), "Quantity"),
       QuantityFulfilled |-> agg_sum(group_lines(df, k), "QuantityFulfilled"),
       Chemical |-> has_chemicals(df, k[1])]
      : k \in group_keys(df) }

overdue_mask_with_drop(r) == r.Bucket = "Overdue" \/ r.Status = PendingBilling

\* the lines of the Overdue KPI and of the Overdue tab
overdue_mask(r) ==
    ~r.IsDropShip /\ (r.Bucket = "Overdue" \/ r.Status = PendingBilling)

\* the lines of the Due Tomorrow KPI and of the Due Tomorrow tab
due_mask(r) == ~r.IsDropShip /\ r.Bucket = "Due Tomorrow"

overdue_df_of(df) == SelectSeq(df, overdue_mask)
due_tomorrow_df_of(df) == SelectSeq(df, due_mask)
drop_ship_df_of(df) == SelectSeq(df, LAMBDA r : r.IsDropShip)

----------------------------------------------------------------------------
(* render_kpi_cards: each card shows nunique() of a selection of document   *)
(* numbers; the record holds the selections, a card shows the cardinality   *)

\* the distinct document numbers of a frame; nunique() is their number
unique_docs(df) == {df[i].DocumentNumber : i \in 1..Len(df)}

render_kpi_cards(df) ==
    [overdue_orders |-> unique_docs(overdue_df_of(df)),
     due_orders |-> unique_docs(due_tomorrow_df_of(df)),
     drop_orders |-> unique_docs(drop_ship_df_of(df)),
     rush_orders |-> unique_docs(SelectSeq(df, LAMBDA r : r.RushOrder))]

----------------------------------------------------------------------------
(* render_filters *)

NoFilters == [customers |-> {}, statuses |-> {}, rush_only |-> FALSE,
              chemical_only |-> FALSE, search_term |-> <<>>]

by_customer(df, f) ==
    IF f.customers # {} THEN SelectSeq(df, LAMBDA r : r.Name \in f.customers)
    ELSE df

by_status(df, f) ==
    IF f.statuses # {} THEN SelectSeq(df, LAMBDA r : r.Status \in f.statuses)
    ELSE df

by_rush(df, f) ==
    IF f.rush_only THEN SelectSeq(df, LAMBDA r : r.RushOrder) ELSE df

\* orders of the frame filtered so far with at least one Assembly/BOM line
chemical_orders(df) ==
    {df[i].DocumentNumber : i \in {j \in 1..Len(df) : df[j].ItemType = AssemblyBOM}}

by_chemical(df, f) ==
    IF f.chemical_only
    THEN SelectSeq(df, LAMBDA r : r.DocumentNumber \in chemical_orders(df))
    ELSE df

search_mask(r, term) ==
    \/ str_contains(str_lower(astype_str(r.DocumentNumber)), term)
    \/ str_contains(str_lower(r.Item), term)
    \/ str_contains(str_lower(r.Memo), term)

by_search(df, f) ==
    IF f.search_term # <<>>
    THEN SelectSeq(df, LAMBDA r : search_mask(r, str_lower(f.search_term)))
    ELSE df

render_filters_any(df, f) ==
    IF f.customers # {} /\ f.statuses # {}
    THEN by_search(by_chemical(by_rush(
             SelectSeq(df, LAMBDA r : r.Name \in f.customers
                                        \/ r.Status \in f.statuses), f), f), f)
    ELSE by_search(by_chemical(by_rush(by_status(by_customer(df, f), f), f), f), f)

render_filters(df, f) ==
    by_search(by_chemical(by_rush(by_status(by_customer(df, f), f), f), f), f)

----------------------------------------------------------------------------
(* What a run renders after the load: main, lines 1069-1076 *)

NoViews == [kpi |-> render_kpi_cards(<<>>), filtered_df |-> <<>>,
            overdue_df |-> <<>>, due_tomorrow_df |-> <<>>, drop_ship_df |-> <<>>]

render_views(df, f) ==
    LET filtered == render_filters(df, f)
    IN [kpi |-> render_kpi_cards(df),
        filtered_df |-> filtered,
        overdue_df |-> overdue_df_of(filtered),
        due_tomorrow_df |-> due_tomorrow_df_of(filtered),
        drop_ship_df |-> drop_ship_df_of(filtered)]

----------------------------------------------------------------------------
(* Inputs *)

Days == 0..MaxDay
Docs == 1..MaxDoc
Names == {"Acme"}
Statuses == {"Pending Fulfillment", "Pending Billing/Partially Fulfilled"}
NumCells == {Blank, Junk} \cup {Num(n) : n \in 0..MaxQty}
ShipCells == {Blank, Junk} \cup {DateText(n) : n \in Days}

\* every line over the full cell domains
Rows == [DocumentNumber : Docs, Name : Names, Status : Statuses,
         ShipDate : ShipCells, Quantity : NumCells, QuantityFulfilled : NumCells,
         PurchaseOrder : {<<>>}, ItemType : {"Inventory Item"},
         Item : {<<"n", "u", "t">>}, Memo : {<<>>}, RushOrder : {<<>>}]

\* lines of multi-line sheets: two ship dates or none, a quantity or junk
OrderRows == [DocumentNumber : Docs, Name : Names, Status : Statuses,
              ShipDate : {Blank, DateText(0), DateText(MaxDay)},
              Quantity : {Junk, Num(MaxQty)},
              QuantityFulfilled : {Num(1)},
              PurchaseOrder : {<<>>}, ItemType : {"Inventory Item"},
              Item : {<<"n", "u", "t">>}, Memo : {<<>>}, RushOrder : {<<>>}]

Sheets == {<<>>} \cup {<<r>> : r \in Rows}
          \cup UNION {[1..n -> OrderRows] : n \in 2..MaxRows}

TodayDays == {t \in Days : t + 4 <= MaxDay /\ weekday(t) \in {2, 4}}
\* no holiday, a holiday on a Monday ahead, or a holiday on Tuesday, day 1
HolidaySets ==
    {{}} \cup {{h} : h \in {c \in Days : (weekday(c) = 0 /\ c > 0) \/ c = 1}}

NoFrame == <<>>
NoEntry == [valid |-> FALSE, df |-> <<>>, ts |-> 0, src |-> <<>>]

----------------------------------------------------------------------------
(* The table specification: load_data and the All Orders summary applied   *)
(* to every sheet of Sheets.                                               *)

InitTable ==
    /\ today \in TodayDays
    /\ ca_holidays \in HolidaySets
    /\ sheet \in Sheets
    /\ env_b64 = "key"
    /\ clock = 0
    /\ cache = NoEntry
    /\ pc = "input"
    /\ data = NoFrame
    /\ screen = {}
    /\ decoded = FALSE
    /\ opened = FALSE
    /\ clicked = FALSE
    /\ rerun = FALSE
    /\ filters = NoFilters
    /\ views = NoViews
    /\ order_summary = {}
    /\ d = 0
    /\ result = 0

ApplyLoadData ==
    /\ pc = "input"
    /\ LET r == load_data(sheet, today, ca_holidays)
       IN /\ data' = r.df
          /\ pc' = IF r.ok THEN "loaded" ELSE "failed"
    /\ UNCHANGED <<filters, today, ca_holidays, sheet, env_b64, clock, cache, screen,
                   decoded, opened, clicked, rerun, order_summary, views, d, result>>

ApplyRenderTabs ==
    /\ pc = "loaded"
    /\ order_summary' = order_summary_of(data)
    /\ views' = [views EXCEPT !.overdue_df = overdue_df_of(data),
                              !.due_tomorrow_df = due_tomorrow_df_of(data),
                              !.drop_ship_df = drop_ship_df_of(data)]
    /\ pc' = "summarised"
    /\ UNCHANGED <<filters, today, ca_holidays, sheet, env_b64, clock, cache, data,
                   screen, decoded, opened, clicked, rerun, d, result>>

NextTable == ApplyLoadData \/ ApplyRenderTabs

SpecTable == InitTable /\ [][NextTable]_vars


----------------------------------------------------------------------------
(* The views specification: one run of main after the key and the cache,   *)
(* load_data, then render_kpi_cards, render_filters and                    *)
(* render_dashboard_tabs, over sheets that carry the Purchase Order, Item  *)
(* Type, Item and Rush Order columns and over sidebar settings.            *)

Customers == {"Acme", "Bolt"}
customer_of(dn) == IF dn = 1 THEN "Acme" ELSE "Bolt"

Nut == <<"n", "u", "t">>
Glue == <<"G", "l", "u", "e">>
Items == {Nut, Glue}
item_type_of(it) == IF it = Glue THEN AssemblyBOM ELSE "Inventory Item"

PurchaseOrders == {<<>>, <<" ">>, <<"P", "7">>, NoColumn}
RushCells == {<<>>, <<"y", "e", "s">>}

\* one-line sheets over every ship date, status, purchase order
TabRows == [DocumentNumber : Docs, Name : Names, Status : Statuses,
            ShipDate : ShipCells, Quantity : {Num(MaxQty)},
            QuantityFulfilled : {Num(0), Num(MaxQty)},
            PurchaseOrder : PurchaseOrders, ItemType : {"Inventory Item"},
            Item : {Nut}, Memo : {<<>>}, RushOrder : {<<>>}]

\* lines of multi-line sheets of the tabs: overdue, drop shipment or not
TabOrderRows == [DocumentNumber : Docs, Name : Names, Status : {"Pending Fulfillment"},
                 ShipDate : {DateText(0)}, Quantity : {Num(MaxQty)},
                 QuantityFulfilled : {Num(0)},
                 PurchaseOrder : {<<>>, <<"P", "7">>}, ItemType : {"Inventory Item"},
                 Item : {Nut}, Memo : {<<>>}, RushOrder : {<<>>}]

TabSheets == {<<r>> : r \in TabRows}
             \cup UNION {[1..n -> TabOrderRows] : n \in 2..MaxRows}

\* lines for the sidebar filters: the customer goes with the order, the item
\* type with the item
FilterRows ==
    {[DocumentNumber |-> dn, Name |-> customer_of(dn), Status |-> s,
      ShipDate |-> DateText(0), Quantity |-> Num(MaxQty),
      QuantityFulfilled |-> Num(0), PurchaseOrder |-> <<>>,
      ItemType |-> item_type_of(it), Item |-> it, Memo |-> <<>>, RushOrder |-> ru]
     : dn \in Docs, s \in Statuses, it \in Items, ru \in RushCells}

FilterSheets == UNION {[1..n -> FilterRows] : n \in 1..MaxRows}

FilterSettings == [customers : {{}, {"Acme"}}, statuses : {{}, {PendingBilling}},
                   rush_only : BOOLEAN, chemical_only : BOOLEAN,
                   search_term : {<<>>, <<"N", "u">>}]

\* lines for the chemical marking: an item, shipped in full or not at all
ChemicalRows ==
    {[DocumentNumber |-> dn, Name |-> customer_of(dn), Status |-> "Pending Fulfillment",
      ShipDate |-> DateText(0), Quantity |-> Num(MaxQty),
      QuantityFulfilled |-> qf, PurchaseOrder |-> <<>>,
      ItemType |-> item_type_of(it), Item |-> it, Memo |-> <<>>, RushOrder |-> <<>>]
     : dn \in Docs, it \in Items, qf \in {Num(0), Num(MaxQty)}}

ChemicalSheets == UNION {[1..n -> ChemicalRows] : n \in 1..MaxRows}

ChemicalSettings == [customers : {{}}, statuses : {{}}, rush_only : {FALSE},
                     chemical_only : BOOLEAN, search_term : {<<>>, <<"N", "u">>}]

\* the multiselects offer the customers and the statuses of the frame
selectable(sh, f) ==
    /\ f.customers \subseteq {sh[i].Name : i \in 1..Len(sh)}
    /\ f.statuses \subseteq {sh[i].Status : i \in 1..Len(sh)}

ViewInputs ==
    (TodayDays \X TabSheets \X {NoFilters})
    \cup {i \in ({CHOOSE t \in TodayDays : TRUE} \X FilterSheets \X FilterSettings)
              : selectable(i[2], i[3])}
    \cup ({CHOOSE t \in TodayDays : TRUE} \X ChemicalSheets \X ChemicalSettings)

InitViews ==
    /\ \E i \in ViewInputs : /\ today = i[1]
                             /\ sheet = i[2]
                             /\ filters = i[3]
    /\ ca_holidays = {}
    /\ env_b64 = "key"
    /\ clock = 0
    /\ cache = NoEntry
    /\ pc = "input"
    /\ data = NoFrame
    /\ screen = {}
    /\ decoded = FALSE
    /\ opened = FALSE
    /\ clicked = FALSE
    /\ rerun = FALSE
    /\ views = NoViews
    /\ order_summary = {}
    /\ d = 0
    /\ result = 0

ApplyRenderViews ==
    /\ pc = "loaded"
    /\ views' = render_views(data, filters)
    /\ order_summary' = order_summary_of(render_filters(data, filters))
    /\ pc' = "rendered"
    /\ UNCHANGED <<filters, today, ca_holidays, sheet, env_b64, clock, cache, data,
                   screen, decoded, opened, clicked, rerun, d, result>>

NextViews == ApplyLoadData \/ ApplyRenderViews

SpecViews == InitViews /\ [][NextViews]_vars

----------------------------------------------------------------------------
(* The calendar specification: next_open_day applied to every day of Days  *)
(* under every holiday set of at most MaxHolidays days.                    *)

CalendarHolidaySets ==
    {H \in SUBSET (0..(MaxDay + 3)) : Cardinality(H) <= MaxHolidays}

InitCalendar ==
    /\ d \in Days
    /\ ca_holidays \in CalendarHolidaySets
    /\ result = 0
    /\ pc = "call"
    /\ today = 0
    /\ sheet = <<>>
    /\ env_b64 = "key"
    /\ clock = 0
    /\ cache = NoEntry
    /\ data = NoFrame
    /\ screen = {}
    /\ decoded = FALSE
    /\ opened = FALSE
    /\ clicked = FALSE
    /\ rerun = FALSE
    /\ filters = NoFilters
    /\ views = NoViews
    /\ order_summary = {}

ApplyNextOpenDay ==
    /\ pc = "call"
    /\ result' = next_open_day(d, ca_holidays)
    /\ pc' = "returned"
    /\ UNCHANGED <<filters, today, ca_holidays, sheet, env_b64, clock, cache, data,
                   screen, decoded, opened, clicked, rerun, order_summary, views, d>>

NextCalendar == ApplyNextOpenDay

SpecCalendar == InitCalendar /\ [][NextCalendar]_vars

----------------------------------------------------------------------------
(* The dashboard: script runs of main against the worksheet, the           *)
(* credential variable, the clock and the load_data cache.                 *)

ttl == 3600

Unset == "<unset>"
EnvValues == {Unset, "", "garbage", "key"}

\* if not b64:
missing_key_none_only(b64) == b64 = Unset

missing_key(b64) == b64 = Unset \/ b64 = ""

\* json.loads(base64.b64decode(b64)) and from_service_account_info succeed
usable_key(b64) == b64 = "key"

\* the st.cache_data(ttl=3600) entry is returned while it is younger than ttl
fresh_no_ttl(e, now) == e.valid

fresh(e, now) == e.valid /\ now - e.ts < ttl

LifeRows == [DocumentNumber : {1}, Name : Names, Status : {"Pending Fulfillment"},
             ShipDate : {DateText(0)}, Quantity : {Num(MaxQty)},
             QuantityFulfilled : {Blank, Num(1)},
             PurchaseOrder : {<<>>}, ItemType : {"Inventory Item"},
             Item : {<<"n", "u", "t">>}, Memo : {<<>>}, RushOrder : {<<>>}]

LifeSheets == {<<>>} \cup {<<r>> : r \in LifeRows}

MissingKeyError == "error: Missing GOOGLE_SERVICE_KEY_B64 in Secrets"
LoadError == "error: Error loading data"

Init ==
    /\ today \in TodayDays
    /\ ca_holidays = {}
    /\ sheet \in LifeSheets
    /\ env_b64 \in EnvValues
    /\ clock = 0
    /\ cache = NoEntry
    /\ pc = "idle"
    /\ data = NoFrame
    /\ screen = {}
    /\ decoded = FALSE
    /\ opened = FALSE
    /\ clicked = FALSE
    /\ rerun = FALSE
    /\ filters = NoFilters
    /\ views = NoViews
    /\ order_summary = {}
    /\ d = 0
    /\ result = 0

\* a script run of main starts: the page header is rendered
StartRun(click, rr) ==
    /\ pc' = "load"
    /\ screen' = {"header"}
    /\ data' = NoFrame
    /\ decoded' = FALSE
    /\ opened' = FALSE
    /\ clicked' = click
    /\ rerun' = rr
    /\ views' = NoViews
    /\ order_summary' = {}

PageLoad ==
    /\ pc \in {"idle", "done", "stopped"}
    /\ StartRun(FALSE, FALSE)
    /\ UNCHANGED <<filters, today, ca_holidays, sheet, env_b64, clock, cache, d, result>>

ClickRefresh ==
    /\ pc = "done"
    /\ StartRun(TRUE, FALSE)
    /\ UNCHANGED <<filters, today, ca_holidays, sheet, env_b64, clock, cache, d, result>>

\* st.cache_data(ttl=3600)(load_data)() finds a cached frame
CacheHit ==
    /\ pc = "load"
    /\ fresh(cache, clock)
    /\ data' = cache.df
    /\ pc' = "render"
    /\ UNCHANGED <<filters, today, ca_holidays, sheet, env_b64, clock, cache, screen,
                   decoded, opened, clicked, rerun, order_summary, views, d, result>>

\* load_data runs; get_worksheet finds no credential: st.error, st.stop.
\* st.stop raises a script-control exception that is no Exception, so the
\* except clause of main does not catch it
GetWorksheetMissingKey ==
    /\ pc = "load"
    /\ ~fresh(cache, clock)
    /\ missing_key(env_b64)
    /\ screen' = screen \cup {MissingKeyError}
    /\ pc' = "stopped"
    /\ UNCHANGED <<filters, today, ca_holidays, sheet, env_b64, clock, cache, data,
                   decoded, opened, clicked, rerun, order_summary, views, d, result>>

\* load_data runs; decoding the credential raises, main reports and stops
GetWorksheetBadKey ==
    /\ pc = "load"
    /\ ~fresh(cache, clock)
    /\ ~missing_key(env_b64)
    /\ ~usable_key(env_b64)
    /\ decoded' = TRUE
    /\ screen' = screen \cup {LoadError}
    /\ pc' = "stopped"
    /\ UNCHANGED <<filters, today, ca_holidays, sheet, env_b64, clock, cache, data,
                   opened, clicked, rerun, order_summary, views, d, result>>

\* load_data runs and reads the worksheet; a frame is cached, a raised
\* exception is reported by main and nothing is cached
LoadDataFetch ==
    /\ pc = "load"
    /\ ~fresh(cache, clock)
    /\ ~missing_key(env_b64)
    /\ usable_key(env_b64)
    /\ decoded' = TRUE
    /\ opened' = TRUE
    /\ LET r == load_data(sheet, today, ca_holidays)
       IN \/ /\ r.ok
             /\ cache' = [valid |-> TRUE, df |-> r.df, ts |-> clock, src |-> sheet]
             /\ data' = r.df
             /\ pc' = "render"
             /\ UNCHANGED screen
          \/ /\ ~r.ok
             /\ screen' = screen \cup {LoadError}
             /\ pc' = "stopped"
             /\ UNCHANGED <<cache, data>>
    /\ UNCHANGED <<filters, today, ca_holidays, sheet, env_b64, clock, clicked, rerun,
                   order_summary, views, d, result>>

Render_no_clear ==
    /\ pc = "render"
    /\ \/ /\ ~clicked
          /\ screen' = screen \cup {"kpi", "filters", "tabs"}
          /\ views' = render_views(data, filters)
          /\ order_summary' = order_summary_of(render_filters(data, filters))
          /\ pc' = "done"
          /\ UNCHANGED <<cache, data, decoded, opened, clicked, rerun>>
       \/ /\ clicked
          /\ UNCHANGED cache
          /\ StartRun(FALSE, TRUE)
    /\ UNCHANGED <<filters, today, ca_holidays, sheet, env_b64, clock, d, result>>

\* render_kpi_cards, render_filters, render_dashboard_tabs; in a run started
\* by the refresh button render_filters clears the cache and reruns:
\* st.cache_data.clear(); st.experimental_rerun()
Render ==
    /\ pc = "render"
    /\ \/ /\ ~clicked
          /\ screen' = screen \cup {"kpi", "filters", "tabs"}
          /\ views' = render_views(data, filters)
          /\ order_summary' = order_summary_of(render_filters(data, filters))
          /\ pc' = "done"
          /\ UNCHANGED <<cache, data, decoded, opened, clicked, rerun>>
       \/ /\ clicked
          /\ cache' = NoEntry
          /\ StartRun(FALSE, TRUE)
    /\ UNCHANGED <<filters, today, ca_holidays, sheet, env_b64, clock, d, result>>

\* the upstream export rewrites the worksheet
SheetEdit ==
    /\ sheet' \in LifeSheets \ {sheet}
    /\ UNCHANGED <<filters, today, ca_holidays, env_b64, clock, cache, pc, data, screen,
                   decoded, opened, clicked, rerun, order_summary, views, d, result>>

Tick ==
    /\ clock < MaxClock * TickSeconds
    /\ clock' = clock + TickSeconds
    /\ UNCHANGED <<filters, today, ca_holidays, sheet, env_b64, cache, pc, data, screen,
                   decoded, opened, clicked, rerun, order_summary, views, d, result>>

\* the server process starts again: a new environment, an empty cache
Restart ==
    /\ env_b64' \in EnvValues
    /\ cache' = NoEntry
    /\ pc' = "idle"
    /\ data' = NoFrame
    /\ screen' = {}
    /\ decoded' = FALSE
    /\ opened' = FALSE
    /\ clicked' = FALSE
    /\ rerun' = FALSE
    /\ views' = NoViews
    /\ order_summary' = {}
    /\ UNCHANGED <<filters, today, ca_holidays, sheet, clock, d, result>>

Next ==
    \/ PageLoad
    \/ ClickRefresh
    \/ CacheHit
    \/ GetWorksheetMissingKey
    \/ GetWorksheetBadKey
    \/ LoadDataFetch
    \/ Render
    \/ SheetEdit
    \/ Tick
    \/ Restart

Spec == Init /\ [][Next]_vars

----------------------------------------------------------------------------
(* Properties of load_data and of the All Orders summary, under SpecTable  *)

Loaded == pc \in {"loaded", "summarised"}

Lines == 1..Len(data)

\* a quantity cell as the glossary counts it: its number, or 0
CountsAs(cell) == IF cell.kind = "int" THEN cell.val ELSE 0

Unparsable(cell) == cell.kind # "date"

\* C1: after load_data, every line with Outstanding Qty > 0 and a ship date
\* on or before today has Bucket "Overdue", whatever its fulfilled quantity
C1_OverdueWhateverFulfilled ==
    Loaded =>
        \A i \in Lines :
            (Gt(data[i].OutstandingQty, 0) /\ Le(data[i].ShipDate, today))
                => data[i].Bucket = "Overdue"

\* C2: after load_data, every line whose Outstanding Qty is 0 or negative
\* has a null Bucket
C2_ShippedNeverBucketed ==
    Loaded =>
        \A i \in Lines :
            data[i].OutstandingQty.v <= 0 => data[i].Bucket = NoBucket

\* a fully shipped or over-shipped line, past its ship date, with a fulfilled
\* quantity: the line the three label conditions come closest to labelling
C2_Witness ==
    /\ Loaded
    /\ \E i \in Lines :
          /\ data[i].OutstandingQty.v < 0
          /\ Gt(data[i].QuantityFulfilled, 0)
          /\ Le(data[i].ShipDate, today)
          /\ data[i].Bucket = NoBucket

IsBusinessDay(c, H) == c % 7 \notin {5, 6} /\ c \notin H

\* C3: next_open_day(d) returns the earliest date strictly after d that is a
\* Monday-to-Friday and no holiday; every date strictly between d and the
\* result is a Saturday, a Sunday or a holiday
C3_NextOpenDayEarliest ==
    pc = "returned" =>
        /\ result > d
        /\ IsBusinessDay(result, ca_holidays)
        /\ \A c \in (d + 1)..(result - 1) :
              c % 7 = 5 \/ c % 7 = 6 \/ c \in ca_holidays

\* the walk crosses a holiday, a weekend and a second holiday
C3_Witness ==
    /\ pc = "returned"
    /\ result = d + 5
    /\ d + 1 \in ca_holidays
    /\ d + 4 \in ca_holidays

DocsOf(df) == {df[i].DocumentNumber : i \in 1..Len(df)}

Total(df, doc, col) ==
    SeqSum([i \in 1..Len(df) |->
               IF df[i].DocumentNumber = doc THEN fillna0(df[i][col]) ELSE 0])

\* C4: in the All Orders summary every document number of the data has one
\* reported Outstanding Qty, Quantity and fulfilled quantity, each the sum of
\* that column over all lines of the document number
C4_SummaryPerDocument ==
    pc = "summarised" =>
        \A doc \in DocsOf(data) :
            /\ Cardinality({s \in order_summary : s.OrderNo = doc}) = 1
            /\ \A s \in order_summary :
                  s.OrderNo = doc =>
                      /\ s.OutstandingQty = Total(data, doc, "OutstandingQty")
                      /\ s.Quantity = Total(data, doc, "Quantity")
                      /\ s.QuantityFulfilled =
                             Total(data, doc, "QuantityFulfilled")

\* C5: after load_data, every line with Outstanding Qty > 0 and ship date
\* equal to the next business day after today has Bucket "Due Tomorrow"
C5_DueTomorrow ==
    Loaded =>
        \A i \in Lines :
            (/\ Gt(data[i].OutstandingQty, 0)
             /\ ~data[i].ShipDate.na
             /\ data[i].ShipDate.v > today
             /\ IsBusinessDay(data[i].ShipDate.v, ca_holidays)
             /\ \A c \in (today + 1)..(data[i].ShipDate.v - 1) :
                   ~IsBusinessDay(c, ca_holidays))
                => data[i].Bucket = "Due Tomorrow"

\* C6: after load_data, every line with Outstanding Qty > 0 and a fulfilled
\* quantity > 0 has Bucket "Partially Shipped", regardless of its ship date
C6_PartiallyShipped ==
    Loaded =>
        \A i \in Lines :
            (Gt(data[i].OutstandingQty, 0) /\ Gt(data[i].QuantityFulfilled, 0))
                => data[i].Bucket = "Partially Shipped"

\* a partly fulfilled line whose ship date is on or before today
C6_Witness ==
    /\ Loaded
    /\ \E i \in Lines :
          /\ Gt(data[i].OutstandingQty, 0)
          /\ Gt(data[i].QuantityFulfilled, 0)
          /\ Le(data[i].ShipDate, today)
          /\ data[i].Bucket = "Partially Shipped"

\* C8: Outstanding Qty equals ordered minus fulfilled quantity, a missing or
\* non-numeric value counting as 0, and a non-numeric quantity never makes
\* load_data fail
C8_OutstandingQty ==
    /\ (\E i \in 1..Len(sheet) : sheet[i].Quantity.kind # "int"
                                  \/ sheet[i].QuantityFulfilled.kind # "int")
          => pc # "failed"
    /\ Loaded =>
          /\ Len(data) = Len(sheet)
          /\ \A i \in Lines :
                data[i].OutstandingQty =
                    Val(CountsAs(sheet[i].Quantity)
                        - CountsAs(sheet[i].QuantityFulfilled))

\* a line with a non-numeric ordered quantity and a fulfilled quantity
C8_Witness ==
    /\ Loaded
    /\ \E i \in Lines :
          /\ sheet[i].Quantity.kind = "text"
          /\ sheet[i].QuantityFulfilled.kind = "int"
          /\ data[i].OutstandingQty.v < 0

\* C9: a line whose ship date cannot be parsed does not make load_data fail;
\* its ship date is null, it is never labelled Overdue or Due Tomorrow, and
\* its Days Overdue is 0
C9_UnparsableShipDate ==
    /\ (\E i \in 1..Len(sheet) : Unparsable(sheet[i].ShipDate))
          => pc # "failed"
    /\ Loaded =>
          \A i \in Lines :
              Unparsable(sheet[i].ShipDate) =>
                  /\ data[i].ShipDate = NA
                  /\ data[i].Bucket \notin {"Overdue", "Due Tomorrow"}
                  /\ data[i].DaysOverdue = 0

\* a line with outstanding quantity whose ship date is not a date
C9_Witness ==
    /\ Loaded
    /\ \E i \in Lines :
          /\ sheet[i].ShipDate.kind = "text"
          /\ Gt(data[i].OutstandingQty, 0)
          /\ data[i].ShipDate.na

\* C11: for every line with a ship date earlier than today, Days Overdue is
\* the number of business days c with ship date <= c < today, a business day
\* being a weekday that is no holiday of the set next_open_day consults
C11_DaysOverdueSkipsHolidays ==
    Loaded =>
        \A i \in Lines :
            (~data[i].ShipDate.na /\ data[i].ShipDate.v < today) =>
                data[i].DaysOverdue =
                    Cardinality({c \in data[i].ShipDate.v .. (today - 1) :
                                    IsBusinessDay(c, ca_holidays)})

----------------------------------------------------------------------------
(* Properties of the script runs, under Spec *)

\* C7: with GOOGLE_SERVICE_KEY_B64 unset or empty, get_worksheet shows an
\* error message and halts the run: the credential is never decoded, the
\* spreadsheet never opened, and no KPI card, filter or tab is rendered
C7_MissingKeyHalts ==
    (env_b64 = "<unset>" \/ env_b64 = "") =>
        /\ ~decoded
        /\ ~opened
        /\ screen \cap {"kpi", "filters", "tabs"} = {}
        /\ pc \in {"idle", "load", "stopped"}
        /\ pc = "stopped" => MissingKeyError \in screen

\* a run stopped on the error message, with an empty credential variable
C7_Witness ==
    /\ env_b64 = ""
    /\ pc = "stopped"
    /\ MissingKeyError \in screen

\* C10 as stated: every run of main that renders performed a fetch
C10_FetchEveryRun == pc = "done" => opened

\* C10, amended: the load step of a run fetches from the spreadsheet exactly
\* when the cache holds no frame younger than 3600 seconds; the frame the run
\* renders is the cached one, computed from the rows the worksheet held at
\* the fetch that filled the cache
C10_FetchUnlessCached ==
    [][(pc = "load" /\ pc' = "render") =>
          /\ opened' <=> ~(cache.valid /\ clock - cache.ts < 3600)
          /\ cache'.valid
          /\ clock - cache'.ts < 3600
          /\ data' = cache'.df
          /\ data' = load_data(cache'.src, today, ca_holidays).df
          /\ opened' => (cache'.src = sheet /\ cache'.ts = clock)]_vars

\* a run rendered cached rows although the worksheet holds other rows
C10_Witness ==
    /\ pc = "done"
    /\ ~opened
    /\ cache.valid
    /\ cache.src # sheet
    /\ clock > cache.ts

\* C15: a run in which the Refresh Data button was clicked does not finish
\* its render: it empties the cache and starts the run again, and the run
\* started that way gets past the load only by opening the spreadsheet; a
\* run that finds a cached frame less than 3600 seconds old gets past the
\* load with that frame and without opening the spreadsheet.
C15_RefreshForcesReload ==
    [][ /\ (pc = "render" /\ clicked) => pc' \in {"render", "load", "idle"}
        /\ (pc = "render" /\ clicked /\ pc' = "load") =>
               (cache' = NoEntry /\ rerun')
        /\ (pc = "load" /\ rerun /\ pc' \notin {"load", "idle"}) => opened'
        /\ (pc = "load" /\ cache.valid /\ clock - cache.ts < 3600
                /\ pc' \notin {"load", "idle"}) =>
               (pc' = "render" /\ ~opened' /\ data' = cache.df)
      ]_vars

\* the run restarted by the button has rendered, from rows it fetched at
\* that time, less than 3600 seconds after the server started
C15_Witness ==
    /\ rerun /\ pc = "done" /\ opened
    /\ cache.valid /\ cache.ts = clock /\ clock > 0 /\ clock < 3600
    /\ data = cache.df

----------------------------------------------------------------------------
(* Properties of the KPI cards, the filters and the tabs, under SpecViews *)

Rendered == pc = "rendered"

\* the Purchase Order cell of a sheet line holds something other than spaces
NonBlankPO(raw) ==
    /\ raw.PurchaseOrder # NoColumn
    /\ \E k \in 1..Len(raw.PurchaseOrder) : raw.PurchaseOrder[k] # " "

WithoutDropShipments(df) ==
    SelectSeq(df, LAMBDA r : \A i \in Lines : data[i] = r => ~NonBlankPO(sheet[i]))

InFrame(df, r) == \E k \in 1..Len(df) : df[k] = r

\* C12: after a render, no line with a non-blank Purchase Order is listed in
\* the Overdue tab or the Due Tomorrow tab, the Overdue and Due Tomorrow cards
\* count what they would count with those lines removed, the document of
\* every such line is counted in the Drop Shipments card, and a sheet without
\* the Purchase Order column has no drop shipment at all.
C12_DropShipmentsExcluded ==
    Rendered =>
        /\ \A i \in Lines :
               NonBlankPO(sheet[i]) =>
                   /\ ~InFrame(views.overdue_df, data[i])
                   /\ ~InFrame(views.due_tomorrow_df, data[i])
                   /\ data[i].DocumentNumber \in views.kpi.drop_orders
        /\ views.kpi.overdue_orders =
               render_kpi_cards(WithoutDropShipments(data)).overdue_orders
        /\ views.kpi.due_orders =
               render_kpi_cards(WithoutDropShipments(data)).due_orders
        /\ (\A i \in Lines : sheet[i].PurchaseOrder = NoColumn) =>
               /\ views.kpi.drop_orders = {}
               /\ views.drop_ship_df = <<>>

\* a drop shipment that is late is left out of the Overdue tab and card while
\* the other late line of the sheet, of another order, is in both
C12_Witness ==
    /\ Rendered
    /\ \E i, j \in Lines :
           /\ NonBlankPO(sheet[i])
           /\ data[i].Bucket = "Overdue"
           /\ data[j].DocumentNumber # data[i].DocumentNumber
           /\ views.overdue_df = <<data[j]>>
           /\ views.kpi.overdue_orders = {data[j].DocumentNumber}
           /\ views.kpi.drop_orders = {data[i].DocumentNumber}

\* C13: after a render, every line listed in the Overdue tab has a ship date
\* on or before today and Outstanding Qty > 0, and every order counted in the
\* Overdue Shipments card has such a line.
C13_OverduePastShipDate ==
    Rendered =>
        /\ \A k \in 1..Len(views.overdue_df) :
               /\ Le(views.overdue_df[k].ShipDate, today)
               /\ Gt(views.overdue_df[k].OutstandingQty, 0)
        /\ \A dn \in views.kpi.overdue_orders :
               \E i \in Lines : /\ data[i].DocumentNumber = dn
                                /\ Le(data[i].ShipDate, today)
                                /\ Gt(data[i].OutstandingQty, 0)

\* a is b with some of its rows left out, the others in their order
IsSubSeq(a, b) ==
    \E f \in [1..Len(a) -> 1..Len(b)] :
        /\ \A j, k \in 1..Len(a) : j < k => f[j] < f[k]
        /\ \A k \in 1..Len(a) : a[k] = b[f[k]]

\* t has the term as a run of characters, whatever the case of the letters
ContainsFold(t, term) ==
    \E i \in 1..(Len(t) - Len(term) + 1) :
        \A k \in 1..Len(term) : lower_char(t[i + k - 1]) = lower_char(term[k])

Matches(r, term) ==
    \/ ContainsFold(astype_str(r.DocumentNumber), term)
    \/ ContainsFold(r.Item, term)
    \/ ContainsFold(r.Memo, term)

C16_ChemicalMarkingConsistent ==
    Rendered =>
        /\ (filters.chemical_only =>
               \A o \in order_summary : o.Chemical = ChemicalMark)
        /\ \A o \in order_summary :
               \A p \in order_summary_of(
                            render_filters(data, [filters EXCEPT !.search_term = <<>>])) :
                   p.OrderNo = o.OrderNo => p.Chemical = o.Chemical

====
